---- MODULE Spec2Model ----
(***************************************************************************)
(* Weekly volunteer scheduling of Turnos-CommIASDCentral.                  *)
(*                                                                         *)
(* The model follows generateSchedule of src/src/App.tsx: the roster the   *)
(* client holds (`volunteers`), the previous week's assignments it fetches *)
(* and the slot loop over ALL_SERVICES x neededFunctions, one step of the  *)
(* inner loop body per ProcessSlot action.  Accented identifiers of the    *)
(* source are written without accents: "Miercoles", "Sabado Manana",       *)
(* "Transmision", "Proyeccion", "Coordinacion".                            *)
(***************************************************************************)
EXTENDS Integers, Sequences, FiniteSets, TLC

\* ------------------------------------------------------------------------
\* Bounds of the model
\* ------------------------------------------------------------------------

\* Largest roster (length of the client's `volunteers` array).
MaxVolunteers == 2

\* Number of times generateSchedule is started, all clients together.
MaxRuns == 2

\* Largest number of rows of table scores.
MaxScoreRecords == 2

\* ------------------------------------------------------------------------
\* Program constants (src/unnamed/part_000)
\* ------------------------------------------------------------------------

ALL_FUNCTIONS ==
  <<"Consola", "Transmision", "Proyeccion", "Medios Digitales", "Coordinacion">>

ALL_SERVICES == <<"Domingo", "Miercoles", "Sabado Manana", "Sabado Tarde">>

\* volunteer_id: number | null.  Volunteer ids are positive (AUTOINCREMENT),
\* so 0 stands for null.
NULL == 0

Range(s) == {s[i] : i \in 1..Len(s)}

Roles == Range(ALL_FUNCTIONS)
Services == Range(ALL_SERVICES)

\* ------------------------------------------------------------------------
\* Inputs of a run
\* ------------------------------------------------------------------------

VolunteerIds == 1..MaxVolunteers

\* Preferred functions and availabilities the rosters are drawn from
\* (registerVolunteer refuses an empty list of either).
FunctionChoices ==
  { {"Transmision"}, {"Coordinacion"}, {"Consola", "Coordinacion"} }

AvailabilityChoices ==
  { {"Domingo"}, {"Miercoles"}, {"Miercoles", "Sabado Manana"} }

\* interface Volunteer, the fields generateSchedule reads.
Volunteer == [id : VolunteerIds, functions : FunctionChoices,
              availability : AvailabilityChoices]

\* The rosters: arrays of volunteers in id order, ids 1..n (rows of the
\* volunteers table, whose id is its primary key).
Rosters ==
  UNION { { r \in [1..n -> Volunteer] : \A i \in 1..n : r[i].id = i }
          : n \in 0..MaxVolunteers }

\* The two weeks a run touches (currentWeekStart, lastWeekStart).
currentWeekStart == "currentWeek"
lastWeekStart == "lastWeek"

VARIABLES
  volunteers,          \* React state `volunteers`: the roster of the run
  lastWeekVolunteers,  \* ids present in the previous week's schedule
  pc,                  \* "idle" | "loop" | "persist" | "posting" | "reload"
  serviceIdx,          \* position of the outer loop in ALL_SERVICES
  funcIdx,             \* position of the inner loop in neededFunctions
  assignments,         \* local array `assignments`
  usedThisWeek,        \* local Map volunteer id -> Set of roles
  warnings,            \* React state `warnings`
  schedules,           \* React state `schedules`
  dbSchedules,         \* table schedules of the server, in row order
  tx,                  \* the transaction of POST /api/schedules in progress
  other,               \* a second client (another browser) running the app
  runs,                \* generateSchedule invocations started so far
  dbTotalScore,        \* column total_score of table volunteers, by id
  dbScores,            \* table scores of the server, in row order
  foreignKeys          \* whether the database enforces its FOREIGN KEY clauses

\* The state of one run of generateSchedule in the first client.
runVars == <<volunteers, lastWeekVolunteers, pc, serviceIdx, funcIdx,
             assignments, usedThisWeek, warnings>>

\* The score bookkeeping of the server.
scoreVars == <<dbTotalScore, dbScores>>

\* Everything the schedule generation and its persistence touch.
scheduleVars == <<runVars, schedules, dbSchedules, tx, other, runs>>

vars == <<volunteers, lastWeekVolunteers, pc, serviceIdx, funcIdx,
          assignments, usedThisWeek, warnings, schedules, dbSchedules, tx,
          other, runs, dbTotalScore, dbScores, foreignKeys>>

\* ------------------------------------------------------------------------
\* The schedules table (src/server.ts)
\* ------------------------------------------------------------------------

\* A row of the table (the AUTOINCREMENT id is its position).
ScheduleRow(week, service, role, id) ==
  [week_start |-> week, service_type |-> service, function_name |-> role,
   volunteer_id |-> id]

\* SELECT * FROM schedules WHERE week_start = ?
GetSchedules(table, week) ==
  SelectSeq(table, LAMBDA r : r.week_start = week)

\* Variant: the old rows of the week are kept.
DeleteOld_Keeps(table, week) == table

\* DELETE FROM schedules WHERE week_start = ?
DeleteOld(table, week) ==
  SelectSeq(table, LAMBDA r : r.week_start # week)

\* Variant: a vacant item is not stored.
InsertRow_SkipsVacant(table, week, item) ==
  IF item.volunteer_id = NULL
    THEN table
    ELSE Append(table, ScheduleRow(week, item.service_type,
                                   item.function_name, item.volunteer_id))

\* INSERT INTO schedules (week_start, service_type, function_name,
\* volunteer_id) VALUES (?, ?, ?, ?), with the week of the request body.
InsertRow(table, week, item) ==
  Append(table, ScheduleRow(week, item.service_type, item.function_name,
                            item.volunteer_id))

\* Variant: a failed transaction keeps what it has written so far.
RolledBack_Partial(table, journal) == table

\* The table after a transaction that threw: db.transaction rolls back to
\* the rows the transaction started from.
RolledBack(table, journal) == journal

\* No request is being handled (the handlers are synchronous).
NoTx == [pos |-> 0, owner |-> 0, week |-> "", data |-> <<>>, journal |-> <<>>]

\* The previous week as the inputs of a run give it: one row per volunteer
\* that served.
PrevWeekRows(prev) ==
  SelectSeq([i \in 1..MaxVolunteers |->
               ScheduleRow(lastWeekStart, "Miercoles",
                           ALL_FUNCTIONS[((i - 1) % Len(ALL_FUNCTIONS)) + 1], i)],
            LAMBDA r : r.volunteer_id \in prev)

\* new Set(lastWeekData.map(s => s.volunteer_id))
VolunteerIdsOf(rows) == {rows[i].volunteer_id : i \in 1..Len(rows)}

\* ------------------------------------------------------------------------
\* generateSchedule
\* ------------------------------------------------------------------------

\* Variant: Domingo is staffed like every other service.
neededFunctions_AllRoles(service) == ALL_FUNCTIONS

\* const neededFunctions = service === "Domingo" ? ["Transmisión"] : ALL_FUNCTIONS
neededFunctions(service) ==
  IF service = "Domingo" THEN <<"Transmision">> ELSE ALL_FUNCTIONS

\* usedThisWeek.get(id) || new Set()
rolesUsedOf(used, id) == used[id]

\* Variant: no weekly limit at all.
WeeklyLimitOk_Unlimited(rolesUsed, role) == TRUE

\* The weekly limit check both filters make: a volunteer with a role this
\* week passes only if the new role or one of the held roles is Coordinacion.
WeeklyLimitOk(rolesUsed, role) ==
  IF Cardinality(rolesUsed) > 0
    THEN role = "Coordinacion" \/ "Coordinacion" \in rolesUsed
    ELSE TRUE

\* Variant: the first filter forgets the previous week.
StrictFilter_NoRecency(v, service, role, lastWeek, used) ==
  /\ service \in v.availability
  /\ role \in v.functions
  /\ WeeklyLimitOk(rolesUsedOf(used, v.id), role)

\* The first filter (preferred candidates).
StrictFilter(v, service, role, lastWeek, used) ==
  /\ service \in v.availability
  /\ role \in v.functions
  /\ v.id \notin lastWeek
  /\ WeeklyLimitOk(rolesUsedOf(used, v.id), role)

\* Variant: the second filter forgets the availability.
RelaxedFilter_NoAvailability(v, service, role, used) ==
  WeeklyLimitOk(rolesUsedOf(used, v.id), role)

\* Variant: the second filter still asks for the preference.
RelaxedFilter_KeepsPreference(v, service, role, used) ==
  /\ service \in v.availability
  /\ role \in v.functions
  /\ WeeklyLimitOk(rolesUsedOf(used, v.id), role)

\* The second filter, applied when the first one leaves nobody.
RelaxedFilter(v, service, role, used) ==
  /\ service \in v.availability
  /\ WeeklyLimitOk(rolesUsedOf(used, v.id), role)

StrictCandidates(roster, service, role, lastWeek, used) ==
  SelectSeq(roster, LAMBDA v : StrictFilter(v, service, role, lastWeek, used))

RelaxedCandidates(roster, service, role, used) ==
  SelectSeq(roster, LAMBDA v : RelaxedFilter(v, service, role, used))

\* `Aviso: Se asignó a alguien no preferente para ${role} en ${service}`
RelaxedWarning(role, service) == <<"Aviso", role, service>>

\* `Error: No hay voluntarios disponibles para ${role} en ${service}`
VacancyWarning(role, service) == <<"Error", role, service>>

\* Variant: the relaxed candidates are taken whenever there are any.
Candidates_RelaxedFirst(roster, service, role, lastWeek, used) ==
  IF Len(RelaxedCandidates(roster, service, role, used)) > 0
    THEN RelaxedCandidates(roster, service, role, used)
    ELSE StrictCandidates(roster, service, role, lastWeek, used)

\* The candidates the selection draws from: the strict ones, or the relaxed
\* ones when there is no strict one.
Candidates(roster, service, role, lastWeek, used) ==
  IF Len(StrictCandidates(roster, service, role, lastWeek, used)) = 0
    THEN RelaxedCandidates(roster, service, role, used)
    ELSE StrictCandidates(roster, service, role, lastWeek, used)

\* Variant: the relaxed pass assigns without a warning.
WarningsAfterRelax_Silent(w, strict, relaxed, role, service) == w

\* Variant: the warning is pushed whenever somebody is available, preferred
\* or not.
WarningsAfterRelax_Always(w, strict, relaxed, role, service) ==
  IF Len(relaxed) > 0 THEN Append(w, RelaxedWarning(role, service)) ELSE w

\* The warnings after the relaxed pass of one slot.
WarningsAfterRelax(w, strict, relaxed, role, service) ==
  IF Len(strict) = 0 /\ Len(relaxed) > 0
    THEN Append(w, RelaxedWarning(role, service))
    ELSE w

\* Variant: a vacancy is recorded without a warning.
WarningsAfterVacancy_Silent(w, role, service) == w

\* Variant: the vacancy warning is put in front of the list.
WarningsAfterVacancy_Prepend(w, role, service) ==
  <<VacancyWarning(role, service)>> \o w

\* The warnings after the vacancy branch of one slot.
WarningsAfterVacancy(w, role, service) ==
  Append(w, VacancyWarning(role, service))

\* Variant: the selection always takes the first candidate.
SelectableIndices_First(candidates) == {1}

\* candidates[Math.floor(Math.random() * candidates.length)]: Math.random()
\* is in [0, 1), so every position of the array can come out.
SelectableIndices(candidates) == 1..Len(candidates)

\* assignments.push({week_start, service_type, function_name, volunteer_id})
Assignment(service, role, id) ==
  [service_type |-> service, function_name |-> role, volunteer_id |-> id]

\* The loop position after one iteration of the inner loop: the next role of
\* the service, or the first role of the next service.
NextFuncIdx(si, fi) ==
  IF fi < Len(neededFunctions(ALL_SERVICES[si])) THEN fi + 1 ELSE 1

\* Variant: the outer loop never leaves its service.
NextServiceIdx_Stuck(si, fi) == si

NextServiceIdx(si, fi) ==
  IF fi < Len(neededFunctions(ALL_SERVICES[si])) THEN si ELSE si + 1

\* Lines 167-176: reset the warnings, create the locals, read the ids of the
\* previous week.
GenerateStart ==
  /\ pc = "idle"
  /\ tx.pos = 0
  /\ runs < MaxRuns
  /\ runs' = runs + 1
  /\ pc' = "loop"
  /\ warnings' = <<>>
  /\ assignments' = <<>>
  /\ usedThisWeek' = [id \in VolunteerIds |-> {}]
  /\ serviceIdx' = 1
  /\ funcIdx' = 1
  /\ lastWeekVolunteers' =
       VolunteerIdsOf(GetSchedules(dbSchedules, lastWeekStart))
  /\ UNCHANGED <<volunteers, schedules, dbSchedules, tx, other>>
  /\ UNCHANGED scoreVars
  /\ UNCHANGED foreignKeys

\* Lines 181-246: one iteration of the inner loop.
ProcessSlot ==
  /\ pc = "loop"
  /\ LET service == ALL_SERVICES[serviceIdx]
         role == neededFunctions(service)[funcIdx]
         strict == StrictCandidates(volunteers, service, role,
                                    lastWeekVolunteers, usedThisWeek)
         relaxed == RelaxedCandidates(volunteers, service, role, usedThisWeek)
         candidates == Candidates(volunteers, service, role,
                                  lastWeekVolunteers, usedThisWeek)
         w1 == WarningsAfterRelax(warnings, strict, relaxed, role, service)
     IN  /\ IF Len(candidates) > 0
              THEN \E k \in SelectableIndices(candidates) :
                     LET selected == candidates[k]
                     IN  /\ assignments' =
                              Append(assignments,
                                     Assignment(service, role, selected.id))
                         /\ usedThisWeek' =
                              [usedThisWeek EXCEPT ![selected.id] = @ \cup {role}]
                         /\ warnings' = w1
              ELSE /\ assignments' =
                        Append(assignments, Assignment(service, role, NULL))
                   /\ warnings' = WarningsAfterVacancy(w1, role, service)
                   /\ UNCHANGED usedThisWeek
         /\ serviceIdx' = NextServiceIdx(serviceIdx, funcIdx)
         /\ funcIdx' = NextFuncIdx(serviceIdx, funcIdx)
         /\ pc' = IF NextServiceIdx(serviceIdx, funcIdx) > Len(ALL_SERVICES)
                    THEN "persist" ELSE "loop"
  /\ UNCHANGED <<volunteers, lastWeekVolunteers, schedules, dbSchedules, tx,
                 other, runs>>
  /\ UNCHANGED scoreVars
  /\ UNCHANGED foreignKeys

\* The second client before it has run anything.
OtherIdle ==
  [pc |-> "idle", lastWeekVolunteers |-> {}, assignments |-> <<>>,
   warnings |-> <<>>, schedules |-> <<>>]

\* The first client and the server before any run, the roster loaded.
Quiet ==
  /\ lastWeekVolunteers = {}
  /\ pc = "idle"
  /\ serviceIdx = 1
  /\ funcIdx = 1
  /\ assignments = <<>>
  /\ usedThisWeek = [id \in VolunteerIds |-> {}]
  /\ warnings = <<>>
  /\ schedules = <<>>
  /\ tx = NoTx
  /\ other = OtherIdle
  /\ runs = 0
  /\ dbTotalScore = [id \in {volunteers[i].id : i \in 1..Len(volunteers)} |-> 0]
  /\ dbScores = <<>>

\* The rows of table volunteers are the keys of dbTotalScore.  Where no
\* volunteer is deleted every volunteer_id written is one of them, no
\* statement can violate a foreign key and the setting makes no difference.
Init ==
  /\ volunteers \in Rosters
  /\ \E prev \in SUBSET VolunteerIds : dbSchedules = PrevWeekRows(prev)
  /\ Quiet
  /\ foreignKeys = TRUE

Next == GenerateStart \/ ProcessSlot

\* ------------------------------------------------------------------------
\* Persisting a run: POST /api/schedules, then fetchSchedules
\* ------------------------------------------------------------------------

\* The rows of table volunteers.
StoredVolunteerIds == DOMAIN dbTotalScore

\* FOREIGN KEY(volunteer_id) REFERENCES volunteers(id), on tables scores and
\* schedules: where the database enforces it, a statement that writes the
\* id of no stored volunteer throws (a NULL violates nothing).
ForeignKeyFails(id) ==
  foreignKeys /\ id # NULL /\ id \notin StoredVolunteerIds

\* The handler of POST /api/schedules starts for a request {week_start,
\* assignments}: the transaction opens and deleteOld runs.
TxOpened(owner, week, data) ==
  [pos |-> 1, owner |-> owner, week |-> week, data |-> data,
   journal |-> dbSchedules]

\* Synchronous code runs to its end before any other step is taken: the
\* slot loop of the first client, which touches nothing but its own locals,
\* and the handler of a request.  The other steps wait for both.
Settled == pc # "loop" /\ tx.pos = 0

\* Lines 249-253 and server.ts 175-184: the first client posts its
\* assignments for the current week.
PostSchedules ==
  /\ pc = "persist"
  /\ Settled
  /\ tx' = TxOpened(1, currentWeekStart, assignments)
  /\ dbSchedules' = DeleteOld(dbSchedules, currentWeekStart)
  /\ pc' = "posting"
  /\ UNCHANGED <<volunteers, lastWeekVolunteers, serviceIdx, funcIdx,
                 assignments, usedThisWeek, warnings, schedules, other, runs>>
  /\ UNCHANGED scoreVars
  /\ UNCHANGED foreignKeys

\* server.ts 185-187: the transaction inserts its next item.
TxInsert ==
  /\ tx.pos \in 1..Len(tx.data)
  /\ ~ForeignKeyFails(tx.data[tx.pos].volunteer_id)
  /\ dbSchedules' = InsertRow(dbSchedules, tx.week, tx.data[tx.pos])
  /\ tx' = [tx EXCEPT !.pos = @ + 1]
  /\ UNCHANGED <<runVars, schedules, other, runs>>
  /\ UNCHANGED scoreVars
  /\ UNCHANGED foreignKeys

\* The request of the transaction's owner is answered: its fetch resolves
\* (also on a 500 answer) and the run goes on to fetchSchedules.
Answered ==
  /\ pc' = IF tx.owner = 1 THEN "reload" ELSE pc
  /\ other' = IF tx.owner = 2 THEN [other EXCEPT !.pc = "reload"] ELSE other

\* server.ts 188-191: every item is inserted, the transaction commits.
TxCommit ==
  /\ tx.pos = Len(tx.data) + 1
  /\ tx' = NoTx
  /\ Answered
  /\ UNCHANGED <<volunteers, lastWeekVolunteers, serviceIdx, funcIdx,
                 assignments, usedThisWeek, warnings, schedules, dbSchedules,
                 runs>>
  /\ UNCHANGED scoreVars
  /\ UNCHANGED foreignKeys

\* server.ts 183-190: a statement of the transaction throws; db.transaction
\* rolls back and the handler fails.
TxAbort ==
  /\ tx.pos >= 1
  /\ dbSchedules' = RolledBack(dbSchedules, tx.journal)
  /\ tx' = NoTx
  /\ Answered
  /\ UNCHANGED <<volunteers, lastWeekVolunteers, serviceIdx, funcIdx,
                 assignments, usedThisWeek, warnings, schedules, runs>>
  /\ UNCHANGED scoreVars
  /\ UNCHANGED foreignKeys

\* Lines 254-256 and server.ts 165-168: fetchSchedules(currentWeekStart),
\* then generateSchedule returns and its locals are gone.
Reload ==
  /\ pc = "reload"
  /\ Settled
  /\ schedules' = GetSchedules(dbSchedules, currentWeekStart)
  /\ pc' = "idle"
  /\ lastWeekVolunteers' = {}
  /\ assignments' = <<>>
  /\ usedThisWeek' = [id \in VolunteerIds |-> {}]
  /\ serviceIdx' = 1
  /\ funcIdx' = 1
  /\ UNCHANGED <<volunteers, warnings, dbSchedules, tx, other, runs>>
  /\ UNCHANGED scoreVars
  /\ UNCHANGED foreignKeys

\* ------------------------------------------------------------------------
\* The second client: the same generateSchedule, its slot loop in one step
\* ------------------------------------------------------------------------

\* The outputs the slot loop (lines 178-247) can end with from position
\* (si, fi): every sequence of selections.
RECURSIVE RunFrom(_, _, _, _, _, _, _)
RunFrom(roster, lastWeek, si, fi, asg, used, warn) ==
  IF si > Len(ALL_SERVICES)
    THEN {[assignments |-> asg, warnings |-> warn]}
    ELSE
      LET service == ALL_SERVICES[si]
          role == neededFunctions(service)[fi]
          strict == StrictCandidates(roster, service, role, lastWeek, used)
          relaxed == RelaxedCandidates(roster, service, role, used)
          candidates == Candidates(roster, service, role, lastWeek, used)
          w1 == WarningsAfterRelax(warn, strict, relaxed, role, service)
      IN  IF Len(candidates) > 0
            THEN UNION {
                   RunFrom(roster, lastWeek, NextServiceIdx(si, fi),
                           NextFuncIdx(si, fi),
                           Append(asg, Assignment(service, role,
                                                  candidates[k].id)),
                           [used EXCEPT ![candidates[k].id] = @ \cup {role}],
                           w1)
                   : k \in SelectableIndices(candidates) }
            ELSE RunFrom(roster, lastWeek, NextServiceIdx(si, fi),
                         NextFuncIdx(si, fi),
                         Append(asg, Assignment(service, role, NULL)),
                         used, WarningsAfterVacancy(w1, role, service))

RunOutputs(roster, lastWeek) ==
  RunFrom(roster, lastWeek, 1, 1, <<>>, [id \in VolunteerIds |-> {}], <<>>)

\* Lines 167-176 in the second client.
OtherStart ==
  /\ other.pc = "idle"
  /\ Settled
  /\ runs < MaxRuns
  /\ runs' = runs + 1
  /\ other' = [other EXCEPT
                 !.pc = "loop",
                 !.assignments = <<>>,
                 !.warnings = <<>>,
                 !.lastWeekVolunteers =
                   VolunteerIdsOf(GetSchedules(dbSchedules, lastWeekStart))]
  /\ UNCHANGED <<runVars, schedules, dbSchedules, tx>>
  /\ UNCHANGED scoreVars
  /\ UNCHANGED foreignKeys

\* Lines 178-247 in the second client, which holds the same roster.
OtherCompute ==
  /\ other.pc = "loop"
  /\ Settled
  /\ \E out \in RunOutputs(volunteers, other.lastWeekVolunteers) :
       other' = [other EXCEPT !.pc = "persist",
                              !.assignments = out.assignments,
                              !.warnings = out.warnings]
  /\ UNCHANGED <<runVars, schedules, dbSchedules, tx, runs>>
  /\ UNCHANGED scoreVars
  /\ UNCHANGED foreignKeys

\* Lines 249-253 in the second client.
OtherPostSchedules ==
  /\ other.pc = "persist"
  /\ Settled
  /\ tx' = TxOpened(2, currentWeekStart, other.assignments)
  /\ dbSchedules' = DeleteOld(dbSchedules, currentWeekStart)
  /\ other' = [other EXCEPT !.pc = "posting"]
  /\ UNCHANGED <<runVars, schedules, runs>>
  /\ UNCHANGED scoreVars
  /\ UNCHANGED foreignKeys

\* Lines 254-255 in the second client.
OtherReload ==
  /\ other.pc = "reload"
  /\ Settled
  /\ other' = [other EXCEPT
                 !.pc = "idle",
                 !.lastWeekVolunteers = {},
                 !.assignments = <<>>,
                 !.schedules = GetSchedules(dbSchedules, currentWeekStart)]
  /\ UNCHANGED <<runVars, schedules, dbSchedules, tx, runs>>
  /\ UNCHANGED scoreVars
  /\ UNCHANGED foreignKeys

\* The rosters of the runs that are persisted: volunteers 1..n, each
\* preferring Transmision and available on Domingo (the runs differ in one
\* slot), and the roster of two volunteers preferring Coordinacion and
\* available on Miercoles (the runs differ in several slots).
StoreRosters ==
  { [i \in 1..n |-> [id |-> i, functions |-> {"Transmision"},
                     availability |-> {"Domingo"}]]
    : n \in 0..MaxVolunteers }
  \cup
  { [i \in 1..2 |-> [id |-> i, functions |-> {"Coordinacion"},
                     availability |-> {"Miercoles"}]] }

StoreInit ==
  /\ volunteers \in StoreRosters
  /\ \E prev \in SUBSET VolunteerIds : dbSchedules = PrevWeekRows(prev)
  /\ Quiet
  /\ foreignKeys = TRUE

StoreNext ==
  \/ GenerateStart
  \/ ProcessSlot
  \/ PostSchedules
  \/ TxInsert
  \/ TxCommit
  \/ TxAbort
  \/ Reload
  \/ OtherStart
  \/ OtherCompute
  \/ OtherPostSchedules
  \/ OtherReload

\* ------------------------------------------------------------------------
\* Scores (server.ts 118-143, App.tsx 118-134 and 722-727)
\* ------------------------------------------------------------------------

\* The values a slider of the scoring form takes: its two ends.
FormValues == {0, 10}

\* Values a field of the body of a score request from any other client
\* takes.  The handler reads the fields from req.body and uses them as they
\* come, a negative number included.
RequestValues == {-10, 10}

\* A row of table scores (the date column is left out).
ScoreRow(id, puntualidad, responsabilidad, orden, week) ==
  [volunteer_id |-> id, puntualidad |-> puntualidad,
   responsabilidad |-> responsabilidad, orden |-> orden, week_start |-> week]

ScoreTotal_Overwrite(total, puntualidad, responsabilidad, orden) ==
  puntualidad + responsabilidad + orden

\* updateTotal: total_score = total_score + ?, with the sum of the fields.
ScoreTotal(total, puntualidad, responsabilidad, orden) ==
  total + (puntualidad + responsabilidad + orden)

\* server.ts 118-137: the handler of POST /api/volunteers/:id/score, for
\* the id of a row of table volunteers.  Both statements run in one
\* transaction.
PostScore(id, puntualidad, responsabilidad, orden) ==
  /\ Len(dbScores) < MaxScoreRecords
  /\ dbScores' = Append(dbScores, ScoreRow(id, puntualidad, responsabilidad,
                                           orden, currentWeekStart))
  /\ dbTotalScore' =
       [dbTotalScore EXCEPT
          ![id] = ScoreTotal(@, puntualidad, responsabilidad, orden)]
  /\ UNCHANGED scheduleVars
  /\ UNCHANGED foreignKeys

\* App.tsx 118-127: the scoring form is saved for a volunteer of the roster.
SubmitScore ==
  \E id \in DOMAIN dbTotalScore :
    \E puntualidad \in FormValues, responsabilidad \in FormValues,
       orden \in FormValues :
      PostScore(id, puntualidad, responsabilidad, orden)

\* A request to the endpoint from any other client of the HTTP interface.
ScoreRequest ==
  \E id \in DOMAIN dbTotalScore :
    \E puntualidad \in RequestValues, responsabilidad \in RequestValues,
       orden \in RequestValues :
      PostScore(id, puntualidad, responsabilidad, orden)

\* server.ts 139-143: the handler of POST /api/volunteers/reset-scores.
ResetScores ==
  /\ dbTotalScore' = [id \in DOMAIN dbTotalScore |-> 0]
  /\ dbScores' = <<>>
  /\ UNCHANGED scheduleVars
  /\ UNCHANGED foreignKeys

ScoreInit ==
  /\ volunteers \in StoreRosters
  /\ dbSchedules = <<>>
  /\ Quiet
  /\ foreignKeys = TRUE

ScoreNext == SubmitScore \/ ScoreRequest \/ ResetScores

\* Scores being submitted and reset against one server.
ScoreSpec == ScoreInit /\ [][ScoreNext]_vars

\* ------------------------------------------------------------------------
\* generateSchedule when one of its requests is rejected (no try / catch)
\* ------------------------------------------------------------------------

\* React state `loading`: set at line 168, cleared at line 255 only.  While
\* it is set the button that starts generateSchedule is disabled.
loading == pc # "idle"

\* Lines 167-175: the run starts, and the fetch of the previous week (or the
\* parsing of its answer) is rejected.  The promise of generateSchedule is
\* rejected and nothing after line 175 runs.
FetchLastWeekRejected ==
  /\ pc = "idle"
  /\ tx.pos = 0
  /\ runs < MaxRuns
  /\ runs' = runs + 1
  /\ pc' = "rejected"
  /\ warnings' = <<>>
  /\ UNCHANGED <<volunteers, lastWeekVolunteers, serviceIdx, funcIdx,
                 assignments, usedThisWeek, schedules, dbSchedules, tx, other>>
  /\ UNCHANGED scoreVars
  /\ UNCHANGED foreignKeys

\* Lines 249-253: the fetch that posts the assignments is rejected before
\* the request reaches the server.
PostSchedulesRejected ==
  /\ pc = "persist"
  /\ Settled
  /\ pc' = "rejected"
  /\ UNCHANGED <<volunteers, lastWeekVolunteers, serviceIdx, funcIdx,
                 assignments, usedThisWeek, warnings, schedules, dbSchedules,
                 tx, other, runs>>
  /\ UNCHANGED scoreVars
  /\ UNCHANGED foreignKeys

\* Lines 254 and 103-105: fetchSchedules is rejected; line 255 does not run.
ReloadRejected ==
  /\ pc = "reload"
  /\ Settled
  /\ pc' = "rejected"
  /\ UNCHANGED <<volunteers, lastWeekVolunteers, serviceIdx, funcIdx,
                 assignments, usedThisWeek, warnings, schedules, dbSchedules,
                 tx, other, runs>>
  /\ UNCHANGED scoreVars
  /\ UNCHANGED foreignKeys

LoadingNext ==
  \/ GenerateStart
  \/ FetchLastWeekRejected
  \/ ProcessSlot
  \/ PostSchedules
  \/ PostSchedulesRejected
  \/ TxInsert
  \/ TxCommit
  \/ TxAbort
  \/ Reload
  \/ ReloadRejected

\* One client running generateSchedule against the server.  Once started,
\* the run goes on: the loop is synchronous, each fetch is answered or
\* rejected, and the handler of a request runs to its end.
LoadingSpec ==
  /\ StoreInit
  /\ [][LoadingNext]_vars
  /\ WF_vars(ProcessSlot)
  /\ WF_vars(PostSchedules \/ PostSchedulesRejected)
  /\ WF_vars(TxInsert \/ TxCommit \/ TxAbort)
  /\ WF_vars(Reload \/ ReloadRejected)

\* ------------------------------------------------------------------------
\* Deleting a volunteer (server.ts 158-163, App.tsx 153-158)
\* ------------------------------------------------------------------------

\* Some row of table scores or of table schedules names volunteer id.
Referenced(id) ==
  \/ \E i \in 1..Len(dbScores) : dbScores[i].volunteer_id = id
  \/ \E i \in 1..Len(dbSchedules) : dbSchedules[i].volunteer_id = id

\* DELETE FROM <table> WHERE volunteer_id = ?
DeleteRowsOf(table, id) ==
  SelectSeq(table, LAMBDA r : r.volunteer_id # id)

\* The handler of DELETE /api/volunteers/:id: three statements, outside any
\* transaction.  The first one deletes the row of table volunteers; where
\* foreign keys are enforced and a row of scores or schedules still names the
\* volunteer, it throws and the handler ends there with nothing deleted.
DeleteVolunteer ==
  /\ Settled
  /\ \E id \in VolunteerIds :
       IF foreignKeys /\ id \in StoredVolunteerIds /\ Referenced(id)
         THEN UNCHANGED <<dbTotalScore, dbScores, dbSchedules>>
         ELSE /\ dbTotalScore' =
                   [v \in StoredVolunteerIds \ {id} |-> dbTotalScore[v]]
              /\ dbScores' = DeleteRowsOf(dbScores, id)
              /\ dbSchedules' = DeleteRowsOf(dbSchedules, id)
  /\ UNCHANGED <<runVars, schedules, tx, other, runs>>
  /\ UNCHANGED foreignKeys

\* App.tsx 97-101 and server.ts 82-96: fetchVolunteers loads the stored
\* roster.  A run of generateSchedule keeps the roster it started with.
FetchVolunteers ==
  /\ pc = "idle"
  /\ Settled
  /\ volunteers' = SelectSeq(volunteers, LAMBDA v : v.id \in StoredVolunteerIds)
  /\ UNCHANGED <<lastWeekVolunteers, pc, serviceIdx, funcIdx, assignments,
                 usedThisWeek, warnings, schedules, dbSchedules, tx, other,
                 runs>>
  /\ UNCHANGED scoreVars
  /\ UNCHANGED foreignKeys

\* server.ts 118-137 for an id that is in no row of table volunteers (the
\* volunteer was deleted, the client still shows it).  Where foreign keys
\* are enforced insertScore throws and the transaction is rolled back;
\* elsewhere the row is stored and updateTotal changes no row.
ScoreRequestUnknown ==
  /\ Len(dbScores) < MaxScoreRecords
  /\ \E id \in VolunteerIds \ StoredVolunteerIds :
       \E puntualidad \in RequestValues, responsabilidad \in RequestValues,
          orden \in RequestValues :
         dbScores' =
           IF ForeignKeyFails(id)
             THEN dbScores
             ELSE Append(dbScores, ScoreRow(id, puntualidad, responsabilidad,
                                            orden, currentWeekStart))
  /\ UNCHANGED dbTotalScore
  /\ UNCHANGED scheduleVars
  /\ UNCHANGED foreignKeys

\* The stored roster, any previous week of volunteers of the roster, and
\* either setting of the foreign keys (the database library is no part of
\* the sources).
DeleteInit ==
  /\ volunteers \in StoreRosters
  /\ \E prev \in SUBSET {volunteers[i].id : i \in 1..Len(volunteers)} :
       dbSchedules = PrevWeekRows(prev)
  /\ Quiet
  /\ foreignKeys \in BOOLEAN

DeleteNext ==
  \/ GenerateStart
  \/ ProcessSlot
  \/ PostSchedules
  \/ TxInsert
  \/ TxCommit
  \/ TxAbort
  \/ Reload
  \/ DeleteVolunteer
  \/ FetchVolunteers

\* Schedule generation and volunteer deletion against one server.
DeleteSpec == DeleteInit /\ [][DeleteNext]_vars

ScoreDeleteInit ==
  /\ volunteers \in StoreRosters
  /\ dbSchedules = <<>>
  /\ Quiet
  /\ foreignKeys \in BOOLEAN

ScoreDeleteNext ==
  \/ SubmitScore
  \/ ScoreRequest
  \/ ScoreRequestUnknown
  \/ ResetScores
  \/ DeleteVolunteer

\* Score submissions, score resets and volunteer deletions.
ScoreDeleteSpec == ScoreDeleteInit /\ [][ScoreDeleteNext]_vars

\* Two clients generating and persisting the current week against one server.
StoreSpec == StoreInit /\ [][StoreNext]_vars

Spec == Init /\ [][Next]_vars

\* The slot loop is synchronous code: once entered it runs to its end.
FairSpec == Spec /\ WF_vars(ProcessSlot)

\* ------------------------------------------------------------------------
\* Vocabulary of the properties
\* ------------------------------------------------------------------------

\* The slots a week needs: (Domingo, Transmision) and every role for each of
\* the three other services.
NeededSlotSet ==
  {<<"Domingo", "Transmision">>}
    \cup ({"Miercoles", "Sabado Manana", "Sabado Tarde"} \X Roles)

SlotOf(a) == <<a.service_type, a.function_name>>

\* The indices of the assignments made for a slot.
IndicesOf(slot) == {i \in 1..Len(assignments) : SlotOf(assignments[i]) = slot}

RosterIds == {volunteers[i].id : i \in 1..Len(volunteers)}

VolunteerOf(id) == CHOOSE v \in Range(volunteers) : v.id = id

Filled(i) == assignments[i].volunteer_id # NULL

\* The assignment at i went to volunteer id.
Holds(id, i) == assignments[i].volunteer_id = id

\* The roster volunteers available for a service.
AvailableFor(service) ==
  {v \in Range(volunteers) : service \in v.availability}

HasWarning(w) == \E k \in 1..Len(warnings) : warnings[k] = w

LoopOver == pc = "persist"

\* Scenario A: the single volunteer 1 (Transmision, Domingo), no previous week.
SingleVolunteerRoster ==
  volunteers = <<[id |-> 1, functions |-> {"Transmision"},
                  availability |-> {"Domingo"}]>>

ScenarioA == SingleVolunteerRoster /\ lastWeekVolunteers = {}

\* Scenario B: the same roster, volunteer 1 served in the previous week.
ScenarioB == SingleVolunteerRoster /\ 1 \in lastWeekVolunteers

\* ------------------------------------------------------------------------
\* C1
\* ------------------------------------------------------------------------

\* C1: a finished run holds exactly one assignment for each of the 16 needed
\* (service, role) slots and no assignment for any other pair.
C1_OneAssignmentPerNeededSlot ==
  LoopOver =>
    /\ Len(assignments) = 16
    /\ Cardinality(NeededSlotSet) = 16
    /\ \A slot \in NeededSlotSet : Cardinality(IndicesOf(slot)) = 1
    /\ \A i \in 1..Len(assignments) : SlotOf(assignments[i]) \in NeededSlotSet

C1_Witness ==
  /\ LoopOver
  /\ lastWeekVolunteers # {}
  /\ \E i \in 1..Len(assignments) : Filled(i)
  /\ \E i \in 1..Len(assignments) : ~Filled(i)

\* ------------------------------------------------------------------------
\* C2
\* ------------------------------------------------------------------------

\* C2 (as claimed): no volunteer holds two assignments whose roles are two
\* different roles other than Coordinacion.
C2_NoTwoNonCoordRoles ==
  \A i, j \in 1..Len(assignments) :
    ( /\ Filled(i)
      /\ assignments[i].volunteer_id = assignments[j].volunteer_id
      /\ assignments[i].function_name # "Coordinacion"
      /\ assignments[j].function_name # "Coordinacion" )
    => assignments[i].function_name = assignments[j].function_name

\* ------------------------------------------------------------------------
\* C3
\* ------------------------------------------------------------------------

\* C3 (as claimed): no volunteer of the previous week holds an assignment of
\* the current week.
C3_NoConsecutiveWeeks ==
  \A i \in 1..Len(assignments) :
    Filled(i) => assignments[i].volunteer_id \notin lastWeekVolunteers

\* ------------------------------------------------------------------------
\* C4
\* ------------------------------------------------------------------------

\* C4: every filled assignment names a roster volunteer whose availability
\* contains the assignment's service.
C4_AssignedIsAvailable ==
  \A i \in 1..Len(assignments) :
    Filled(i) =>
      /\ assignments[i].volunteer_id \in RosterIds
      /\ assignments[i].service_type
           \in VolunteerOf(assignments[i].volunteer_id).availability

\* A slot filled by the relaxed pass, in a roster where somebody is not
\* available for that service.
C4_Witness ==
  \E i \in 1..Len(assignments) :
    /\ Filled(i)
    /\ HasWarning(RelaxedWarning(assignments[i].function_name,
                                 assignments[i].service_type))
    /\ AvailableFor(assignments[i].service_type) # Range(volunteers)

\* ------------------------------------------------------------------------
\* C5
\* ------------------------------------------------------------------------

\* C5: when a slot (S, R) goes to a volunteer who does not prefer R, the
\* warnings hold the relaxed-assignment warning for R in S.
C5_NonPreferredIsWarned ==
  \A i \in 1..Len(assignments) :
    ( /\ Filled(i)
      /\ assignments[i].volunteer_id \in RosterIds
      /\ assignments[i].function_name
           \notin VolunteerOf(assignments[i].volunteer_id).functions )
    => HasWarning(RelaxedWarning(assignments[i].function_name,
                                 assignments[i].service_type))

C5_Witness ==
  \E i \in 1..Len(assignments) :
    /\ Filled(i)
    /\ assignments[i].function_name
         \notin VolunteerOf(assignments[i].volunteer_id).functions

\* ------------------------------------------------------------------------
\* C6
\* ------------------------------------------------------------------------

\* C6: when a slot (S, R) is recorded vacant, the warnings hold the vacancy
\* warning for R in S.
C6_VacancyIsWarned ==
  \A i \in 1..Len(assignments) :
    ~Filled(i) =>
      HasWarning(VacancyWarning(assignments[i].function_name,
                                assignments[i].service_type))

\* A vacancy although the roster is not empty.
C6_Witness ==
  /\ Len(volunteers) > 0
  /\ \E i \in 1..Len(assignments) : ~Filled(i)

\* ------------------------------------------------------------------------
\* C7
\* ------------------------------------------------------------------------

\* C7: for every roster and previous week the slot loop ends; while it runs
\* it has visited fewer than the 16 needed slots and can take its next step
\* (no slot raises an error); when it is over it has visited each needed
\* slot exactly once, and with an empty roster every assignment is vacant
\* and every slot has its vacancy warning.
C7_LoopTerminates ==
  /\ (pc = "loop") ~> LoopOver
  /\ [](pc = "loop" => (ENABLED ProcessSlot /\ Len(assignments) < 16))
  /\ [](LoopOver =>
          /\ {SlotOf(assignments[i]) : i \in 1..Len(assignments)} = NeededSlotSet
          /\ \A i, j \in 1..Len(assignments) :
               SlotOf(assignments[i]) = SlotOf(assignments[j]) => i = j)
  /\ []((LoopOver /\ Len(volunteers) = 0) =>
          \A i \in 1..Len(assignments) :
            /\ ~Filled(i)
            /\ HasWarning(VacancyWarning(assignments[i].function_name,
                                         assignments[i].service_type)))

\* The loop has ended on the empty roster.
C7_Witness ==
  /\ LoopOver
  /\ Len(volunteers) = 0
  /\ Len(assignments) = 16
  /\ Len(warnings) = 16

\* ------------------------------------------------------------------------
\* C8
\* ------------------------------------------------------------------------

\* C8 (as claimed): in Scenario B the (Domingo, Transmision) assignment is
\* vacant and has its vacancy warning; in general a slot whose only available
\* volunteers all served in the previous week is left vacant.
C8_RecentlyServedLeavesVacancy ==
  /\ (ScenarioB /\ LoopOver) =>
       /\ \A i \in IndicesOf(<<"Domingo", "Transmision">>) : ~Filled(i)
       /\ HasWarning(VacancyWarning("Transmision", "Domingo"))
  /\ \A i \in 1..Len(assignments) :
       ( \A v \in AvailableFor(assignments[i].service_type) :
           v.id \in lastWeekVolunteers )
       => ~Filled(i)

\* ------------------------------------------------------------------------
\* C9
\* ------------------------------------------------------------------------

\* C9 (as claimed): in Scenario A the output is the single assignment
\* (Domingo, Transmision, volunteer 1) and there is no warning.
C9_ScenarioA_SingleAssignment ==
  (ScenarioA /\ LoopOver) =>
    /\ assignments = <<Assignment("Domingo", "Transmision", 1)>>
    /\ warnings = <<>>

\* C9 (amended): in Scenario A the output holds exactly one filled
\* assignment, (Domingo, Transmision, volunteer 1), with no warning for that
\* slot; the 15 other needed slots are present as vacancies, each with its
\* vacancy warning and no other warning.
C9_ScenarioA_OneFilledSlot ==
  (ScenarioA /\ LoopOver) =>
    /\ Len(assignments) = 16
    /\ assignments[1] = Assignment("Domingo", "Transmision", 1)
    /\ \A i \in 2..Len(assignments) : ~Filled(i)
    /\ Len(warnings) = 15
    /\ \A i \in 2..Len(assignments) :
         warnings[i - 1] = VacancyWarning(assignments[i].function_name,
                                          assignments[i].service_type)

C9_Witness == ScenarioA /\ LoopOver /\ Len(assignments) > 1

\* ------------------------------------------------------------------------
\* C10
\* ------------------------------------------------------------------------

\* The volunteer v is the only one available for the service of the slot at
\* i, does not prefer its role, did not serve last week and had no role yet
\* when the slot was processed.
OnlyNonPreferringCandidate(v, i) ==
  /\ AvailableFor(assignments[i].service_type) = {v}
  /\ assignments[i].function_name \notin v.functions
  /\ v.id \notin lastWeekVolunteers
  /\ \A j \in 1..(i - 1) : ~Holds(v.id, j)

\* C10: Scenario C.  A slot (S, R) whose only available volunteer does not
\* prefer R, did not serve last week and has no role yet this week goes to
\* that volunteer, and the relaxed-assignment warning for (R, S) is emitted.
C10_ScenarioC_RelaxedAssignment ==
  \A i \in 1..Len(assignments) :
    \A v \in Range(volunteers) :
      OnlyNonPreferringCandidate(v, i) =>
        /\ Holds(v.id, i)
        /\ HasWarning(RelaxedWarning(assignments[i].function_name,
                                     assignments[i].service_type))

\* Scenario C has happened in a roster of several volunteers.
C10_Witness ==
  /\ Len(volunteers) > 1
  /\ \E i \in 1..Len(assignments) :
       \E v \in Range(volunteers) :
         OnlyNonPreferringCandidate(v, i) /\ Holds(v.id, i)

\* ------------------------------------------------------------------------
\* Vocabulary of the properties about the slot being processed
\* ------------------------------------------------------------------------

\* The slot the loop is about to process (defined while pc = "loop").
CurService == ALL_SERVICES[serviceIdx]
CurRole == neededFunctions(CurService)[funcIdx]

CurStrict ==
  StrictCandidates(volunteers, CurService, CurRole, lastWeekVolunteers,
                   usedThisWeek)

CurRelaxed == RelaxedCandidates(volunteers, CurService, CurRole, usedThisWeek)

\* The roles a volunteer holds in the assignments made so far.
RolesHeld(id) ==
  {assignments[i].function_name :
     i \in {j \in 1..Len(assignments) : Holds(id, j)}}

\* The weekly-load condition as the specification words it.
LoadAllows(v, role) ==
  \/ RolesHeld(v.id) = {}
  \/ role = "Coordinacion"
  \/ "Coordinacion" \in RolesHeld(v.id)

\* The strict conditions (a)-(d) for the current slot.
StrictEligible ==
  {v \in Range(volunteers) :
     /\ CurService \in v.availability
     /\ CurRole \in v.functions
     /\ v.id \notin lastWeekVolunteers
     /\ LoadAllows(v, CurRole)}

\* The strict conditions without the preference (b).
RelaxedEligible ==
  {v \in Range(volunteers) :
     /\ CurService \in v.availability
     /\ v.id \notin lastWeekVolunteers
     /\ LoadAllows(v, CurRole)}

\* The volunteer id of the assignment the step has just pushed.
PushedId == assignments'[Len(assignments) + 1].volunteer_id

\* ------------------------------------------------------------------------
\* C11
\* ------------------------------------------------------------------------

\* C11 (as claimed): Scenario D.  A volunteer who holds a role other than
\* Coordinacion this week passes the weekly limit for a Coordinacion slot,
\* and is a candidate of neither pass for a slot of any other role, whether
\* or not the volunteer also holds Coordinacion.
C11_OneNonCoordRolePerWeek ==
  pc = "loop" =>
    \A v \in Range(volunteers) :
      (RolesHeld(v.id) \ {"Coordinacion"} # {}) =>
        /\ (CurRole = "Coordinacion" /\ CurService \in v.availability)
             => v \in Range(CurRelaxed)
        /\ CurRole # "Coordinacion"
             => (v \notin Range(CurStrict) /\ v \notin Range(CurRelaxed))

\* ------------------------------------------------------------------------
\* C16
\* ------------------------------------------------------------------------

\* C16: when a slot (S, R) is processed, the strict candidates are exactly
\* the roster volunteers available for S, preferring R, absent from the
\* previous week and allowed by the weekly load (no role yet, or R is
\* Coordinacion, or Coordinacion already held).
C16_StrictCandidateSet ==
  pc = "loop" => Range(CurStrict) = StrictEligible

\* A slot with a strict candidate and with a volunteer the recency rule
\* keeps out, after some slot was already filled.
C16_Witness ==
  /\ pc = "loop"
  /\ Len(CurStrict) > 0
  /\ \E i \in 1..Len(assignments) : Filled(i)
  /\ \E v \in Range(volunteers) :
       /\ v.id \in lastWeekVolunteers
       /\ CurService \in v.availability
       /\ CurRole \in v.functions

\* ------------------------------------------------------------------------
\* C17
\* ------------------------------------------------------------------------

\* C17 (as claimed): when the strict pass of a slot is empty, the relaxed
\* candidates are exactly the volunteers meeting the strict conditions
\* without the preference: available, absent from the previous week and
\* allowed by the weekly load.
C17_RelaxedCandidateSet ==
  (pc = "loop" /\ Len(CurStrict) = 0) => Range(CurRelaxed) = RelaxedEligible

\* ------------------------------------------------------------------------
\* C18
\* ------------------------------------------------------------------------

\* C18: when some volunteer meets all strict conditions for the slot being
\* processed, the step assigns the slot to a volunteer who prefers its role
\* and emits no warning.
C18_PreferredFirst ==
  [][ (pc = "loop" /\ StrictEligible # {}) =>
        /\ PushedId \in RosterIds
        /\ CurRole \in VolunteerOf(PushedId).functions
        /\ warnings' = warnings ]_vars

\* A slot went, without a warning, to a volunteer who prefers its role while
\* a volunteer who does not prefer it was available and free.
C18_Witness ==
  \E i \in 1..Len(assignments) :
    /\ Filled(i)
    /\ assignments[i].function_name
         \in VolunteerOf(assignments[i].volunteer_id).functions
    /\ ~HasWarning(RelaxedWarning(assignments[i].function_name,
                                  assignments[i].service_type))
    /\ \E v \in AvailableFor(assignments[i].service_type) :
         /\ assignments[i].function_name \notin v.functions
         /\ \A j \in 1..Len(assignments) : ~Holds(v.id, j)

\* ------------------------------------------------------------------------
\* C19
\* ------------------------------------------------------------------------

\* The candidates of the chosen pass for the current slot: the strict ones
\* if there are any, else the relaxed ones.
ChosenPass == IF Len(CurStrict) > 0 THEN CurStrict ELSE CurRelaxed

\* C19: the volunteer a step assigns is a member of the chosen pass of the
\* slot, and every member of the chosen pass can be the one assigned,
\* whatever its id or its position in the roster.
C19_AnyCandidateSelectable ==
  /\ [][ (pc = "loop" /\ PushedId # NULL) =>
           PushedId \in {v.id : v \in Range(ChosenPass)} ]_vars
  /\ [](pc = "loop" =>
          \A v \in Range(ChosenPass) :
            ENABLED (ProcessSlot /\ PushedId = v.id))

\* The last roster volunteer was assigned a slot for which the first one was
\* a candidate of the same (strict) pass.
C19_Witness ==
  /\ Len(volunteers) > 1
  /\ \E i \in 1..Len(assignments) :
       /\ Holds(volunteers[Len(volunteers)].id, i)
       /\ assignments[i].service_type \in volunteers[1].availability
       /\ assignments[i].function_name \in volunteers[1].functions
       /\ assignments[i].function_name
            \in volunteers[Len(volunteers)].functions
       /\ volunteers[1].id \notin lastWeekVolunteers
       /\ \A j \in 1..(i - 1) : ~Filled(j)

\* ------------------------------------------------------------------------
\* C20
\* ------------------------------------------------------------------------

\* C20 (as claimed): whenever the relaxed-assignment warning for role R in
\* service S is in the warnings, slot (S, R) is filled and its volunteer
\* does not prefer R.
C20_WarningMeansNonPreferred ==
  \A k \in 1..Len(warnings) :
    warnings[k][1] = "Aviso" =>
      \A i \in IndicesOf(<<warnings[k][3], warnings[k][2]>>) :
        /\ Filled(i)
        /\ assignments[i].function_name
             \notin VolunteerOf(assignments[i].volunteer_id).functions

\* ------------------------------------------------------------------------
\* Vocabulary of the properties about the stored schedules
\* ------------------------------------------------------------------------

\* The rows a list of assignments is stored as for a week.
RowsOf(data, week) ==
  [i \in 1..Len(data) |->
     ScheduleRow(week, data[i].service_type, data[i].function_name,
                 data[i].volunteer_id)]

\* The stored rows of the current week.
StoredNow == GetSchedules(dbSchedules, currentWeekStart)

\* The previous-week ids as the table holds them.
StoredLastWeekIds == VolunteerIdsOf(GetSchedules(dbSchedules, lastWeekStart))

\* ------------------------------------------------------------------------
\* C12
\* ------------------------------------------------------------------------

\* C12: when POST /api/schedules for week W completes, the stored rows of W
\* are exactly the submitted assignments, and the rows of every other week
\* are the ones stored before the request.
C12_ReplacedWholesale ==
  [][ TxCommit =>
        /\ GetSchedules(dbSchedules', tx.week) = RowsOf(tx.data, tx.week)
        /\ \A w \in {currentWeekStart, lastWeekStart} \ {tx.week} :
             GetSchedules(dbSchedules', w) = GetSchedules(tx.journal, w) ]_vars

\* The first client's run is stored, replacing an earlier, different run of
\* the week, next to rows of the previous week.
C12_Witness ==
  /\ pc = "reload"
  /\ tx.pos = 0
  /\ StoredNow = RowsOf(assignments, currentWeekStart)
  /\ Len(schedules) > 0
  /\ schedules # StoredNow
  /\ StoredLastWeekIds # {}

\* ------------------------------------------------------------------------
\* C13
\* ------------------------------------------------------------------------

\* C13: when the transaction of POST /api/schedules fails, at whatever point
\* between clearing the old rows and inserting the last new one, the table
\* is left exactly as it was before the request.
C13_FailureChangesNothing ==
  [][ TxAbort => dbSchedules' = tx.journal ]_vars

\* The first client's request failed and the rows of the earlier run, which
\* it had on screen, are still the stored ones.
C13_Witness ==
  /\ pc = "reload"
  /\ tx.pos = 0
  /\ other = OtherIdle
  /\ Len(schedules) > 0
  /\ StoredNow = schedules
  /\ StoredNow # RowsOf(assignments, currentWeekStart)

\* ------------------------------------------------------------------------
\* C14
\* ------------------------------------------------------------------------

\* The assignment lists of the invocations whose request was carried out:
\* an invocation that has posted and not yet returned still holds its list;
\* one that has returned left on screen the rows that were stored then.
CarriedOut ==
  (IF pc = "reload" THEN {RowsOf(assignments, currentWeekStart)} ELSE {})
    \cup (IF other.pc = "reload"
            THEN {RowsOf(other.assignments, currentWeekStart)} ELSE {})
    \cup {schedules, other.schedules}

\* C14: whenever no request is being handled, the stored rows of the current
\* week are none (nothing persisted yet) or exactly the complete assignment
\* list of one invocation: 16 rows that cover the 16 needed slots (so never
\* two rows for a slot) and never a mixture of two invocations.
C14_OneRunStored ==
  tx.pos = 0 =>
    \/ StoredNow = <<>>
    \/ /\ StoredNow \in CarriedOut
       /\ Len(StoredNow) = 16
       /\ {<<StoredNow[i].service_type, StoredNow[i].function_name>> :
              i \in 1..Len(StoredNow)} = NeededSlotSet

\* Both clients have posted different outputs before either reloaded, and
\* the second client's is the stored one.
C14_Witness ==
  /\ tx.pos = 0
  /\ pc = "reload"
  /\ other.pc = "reload"
  /\ assignments # other.assignments
  /\ StoredNow = RowsOf(other.assignments, currentWeekStart)

\* ------------------------------------------------------------------------
\* C15
\* ------------------------------------------------------------------------

\* A step lowers no volunteer's total_score.
NoScoreLowered ==
  \A id \in DOMAIN dbTotalScore : dbTotalScore'[id] >= dbTotalScore[id]

\* C15: over any sequence of score submissions a volunteer's total_score
\* never decreases from one state to the next, except by the reset of all
\* scores, which sets it to 0.
C15_TotalScoreNonDecreasing ==
  [][ NoScoreLowered \/ ResetScores ]_vars

\* Submissions made through the scoring form lower no total_score.
FormSubmissionsNonDecreasing ==
  [][ SubmitScore => NoScoreLowered ]_vars

\* A total_score below 0: some submission has lowered it.
ScoreBelowZero ==
  \E id \in DOMAIN dbTotalScore : dbTotalScore[id] < 0

\* ------------------------------------------------------------------------
\* C21
\* ------------------------------------------------------------------------

\* The slots of one service in the canonical order: only Transmision for
\* Domingo, every role in ALL_FUNCTIONS order otherwise.
CanonicalSlotsOf(service) ==
  IF service = "Domingo"
    THEN << <<service, "Transmision">> >>
    ELSE [i \in 1..Len(ALL_FUNCTIONS) |-> <<service, ALL_FUNCTIONS[i]>>]

\* The needed slots in the canonical order, services in ALL_SERVICES order.
CanonicalSlots ==
  CanonicalSlotsOf("Domingo") \o CanonicalSlotsOf("Miercoles")
    \o CanonicalSlotsOf("Sabado Manana") \o CanonicalSlotsOf("Sabado Tarde")

\* The position in the canonical order of the slot a warning speaks of.
SlotPositionOf(w) ==
  CHOOSE p \in 1..Len(CanonicalSlots) : CanonicalSlots[p] = <<w[3], w[2]>>

\* C21: the assignments are emitted in the canonical slot order (services in
\* ALL_SERVICES order, roles in ALL_FUNCTIONS order, only Transmision for
\* Domingo), and in the warning list the warning of an earlier slot comes
\* before the warning of a later slot (each warning speaks of a slot that is
\* not earlier than the slot of the warning before it).
C21_CanonicalOrder ==
  /\ Len(assignments) <= Len(CanonicalSlots)
  /\ \A i \in 1..Len(assignments) : SlotOf(assignments[i]) = CanonicalSlots[i]
  /\ \A k \in 1..(Len(warnings) - 1) :
       SlotPositionOf(warnings[k]) <= SlotPositionOf(warnings[k + 1])

\* A finished run whose warning list holds a relaxed-assignment warning
\* followed, later on, by a vacancy warning, and a vacancy warning followed
\* by a relaxed-assignment warning.
C21_Witness ==
  /\ LoopOver
  /\ Len(assignments) = Len(CanonicalSlots)
  /\ \E k, l, m \in 1..Len(warnings) :
       /\ k < l /\ l < m
       /\ warnings[k][1] = "Error"
       /\ warnings[l][1] = "Aviso"
       /\ warnings[m][1] = "Error"

\* ------------------------------------------------------------------------
\* C23
\* ------------------------------------------------------------------------

\* The assignments volunteer id holds.
SlotsHeld(id) == {i \in 1..Len(assignments) : Holds(id, i)}

\* C23: a volunteer with two or more assignments in the week has
\* Coordinacion among the assigned roles; a volunteer who holds no
\* Coordinacion slot holds at most one slot.
C23_SeveralSlotsNeedCoordination ==
  \A id \in RosterIds :
    Cardinality(SlotsHeld(id)) >= 2 => "Coordinacion" \in RolesHeld(id)

\* A finished run in which one volunteer holds Coordinacion next to other
\* slots and another volunteer, without Coordinacion, holds exactly one slot.
C23_Witness ==
  /\ LoopOver
  /\ \E id \in RosterIds :
       /\ Cardinality(SlotsHeld(id)) >= 3
       /\ "Coordinacion" \in RolesHeld(id)
  /\ \E id \in RosterIds :
       /\ Cardinality(SlotsHeld(id)) = 1
       /\ "Coordinacion" \notin RolesHeld(id)

\* ------------------------------------------------------------------------
\* C26
\* ------------------------------------------------------------------------

\* C26: every invocation of generateSchedule eventually returns the client
\* to the idle state: the loading flag set at the start eventually becomes
\* false again, also when a fetch of the run fails.
C26_LoadingEventuallyCleared == loading ~> ~loading

\* A run whose requests are all answered, also with a failure answer of the
\* server, returns: only a rejected fetch keeps the flag set.
AnsweredRunReturns == loading ~> (~loading \/ pc = "rejected")

\* The flag is set and the run is over.
LoadingStuck == loading /\ pc = "rejected"

\* ------------------------------------------------------------------------
\* C24
\* ------------------------------------------------------------------------

RECURSIVE RecordSum(_, _)
\* The sum of puntualidad + responsabilidad + orden over the rows of a
\* volunteer.
RecordSum(rows, id) ==
  IF rows = <<>>
    THEN 0
    ELSE (IF Head(rows).volunteer_id = id
            THEN Head(rows).puntualidad + Head(rows).responsabilidad
                   + Head(rows).orden
            ELSE 0)
         + RecordSum(Tail(rows), id)

\* C24: after any sequence of score submissions, score resets and volunteer
\* deletions, the total_score of every stored volunteer is the sum of
\* puntualidad + responsabilidad + orden over the stored score records of
\* that volunteer (0 when there is none).
C24_TotalIsSumOfRecords ==
  \A id \in StoredVolunteerIds : dbTotalScore[id] = RecordSum(dbScores, id)

\* A volunteer was deleted, and a stored one has two records and a total
\* that is not 0.
C24_Witness ==
  /\ StoredVolunteerIds # {volunteers[i].id : i \in 1..Len(volunteers)}
  /\ \E id \in StoredVolunteerIds :
       /\ dbTotalScore[id] # 0
       /\ Cardinality({i \in 1..Len(dbScores) :
                         dbScores[i].volunteer_id = id}) >= 2

\* ------------------------------------------------------------------------
\* C22
\* ------------------------------------------------------------------------

\* The rows hold exactly one assignment per needed slot.
OnePerNeededSlot(rows) ==
  /\ Len(rows) = Cardinality(NeededSlotSet)
  /\ {<<rows[i].service_type, rows[i].function_name>> : i \in 1..Len(rows)}
       = NeededSlotSet

\* The current week is stored with one assignment per needed slot and no
\* request is being handled.
WeekScheduled == tx.pos = 0 /\ OnePerNeededSlot(StoredNow)

\* C22: once a week has been scheduled, the store holds exactly one
\* assignment per needed slot for it after every later generation and
\* volunteer deletion (a slot whose volunteer was removed stays, vacant).
C22_ScheduledWeekStaysComplete ==
  [][ WeekScheduled => (tx'.pos = 0 => WeekScheduled') ]_vars

\* Where the database enforces the foreign keys the scheduled week stays
\* complete: the deletion of a scheduled volunteer is refused.
ScheduledWeekStaysCompleteUnderForeignKeys ==
  [][ (foreignKeys /\ WeekScheduled) => (tx'.pos = 0 => WeekScheduled') ]_vars

\* ------------------------------------------------------------------------
\* C25
\* ------------------------------------------------------------------------

\* C25: under any interleaving of volunteer deletion with schedule
\* generation, every non-null volunteer_id of the stored schedules is the id
\* of a stored volunteer.
C25_StoredIdsExist ==
  tx.pos = 0 =>
    \A i \in 1..Len(dbSchedules) :
      \/ dbSchedules[i].volunteer_id = NULL
      \/ dbSchedules[i].volunteer_id \in StoredVolunteerIds

\* Where the database enforces the foreign keys no stored assignment names
\* a deleted volunteer.
StoredIdsExistUnderForeignKeys == foreignKeys => C25_StoredIdsExist

\* A volunteer of the run's roster is deleted although the foreign keys are
\* enforced, and the run's request has been handled.
StaleRosterPosted ==
  /\ foreignKeys
  /\ pc = "reload"
  /\ \E i \in 1..Len(assignments) :
       /\ assignments[i].volunteer_id # NULL
       /\ assignments[i].volunteer_id \notin StoredVolunteerIds

====
